---- MODULE Spec2Model ----
(***************************************************************************)
(* BurnCloud GCP passthrough proxy (src/main.py).                          *)
(*                                                                         *)
(* One uvicorn worker runs one asyncio event loop.  A request handler is a *)
(* coroutine: it gives the loop away only at an `await` (reading the       *)
(* request body, the upstream POST).  GoogleAuthManager.get_token is a     *)
(* plain synchronous call, so the refresh round trip it makes holds the    *)
(* event loop until it returns.                                            *)
(*                                                                         *)
(* Strings are sequences of atoms (a scheme word, a space, a key, a JSON   *)
(* literal, a byte that is not UTF-8), so that startswith, split and the   *)
(* JSON codec are computed the way the code computes them.                 *)
(***************************************************************************)
EXTENDS Integers, Sequences, FiniteSets, TLC

\* ---------------------------------------------------------------- bounds
NReq == 2          \* request slots served concurrently
MaxTime == 1       \* token lifetimes that run out
MaxBodyLen == 2    \* atoms in a request or response body
MaxAttempts == 2   \* the refresh counters saturate here
MaxHdrLen == 5     \* atoms in an Authorization header given to verify_api_key

Requests == 1..NReq

Min(a, b) == IF a < b THEN a ELSE b

\* ------------------------------------------------------- configuration
K1 == "sk-client-veo-001"
K2 == "sk-burncloud-admin"
KBad == "sk-bad-key"

Keys == {K1, K2}

\* VALID_API_KEYS as written in the source: both identities active.
SourceKeyTable ==
    (K1 :> [name |-> "VIP Client A", active |-> TRUE]) @@
    (K2 :> [name |-> "Admin Test", active |-> TRUE])

\* The same table with the first identity's active flag as a deployment may
\* set it.
KeyTables ==
    { (K1 :> [name |-> "VIP Client A", active |-> a]) @@
      (K2 :> [name |-> "Admin Test", active |-> TRUE]) : a \in BOOLEAN }

REGION == <<"us-central1">>
PROJECT_ID == <<"your-project-id">>

ModelNames == {"gemini-test"}

\* ------------------------------------------------------------- strings
SP == " "
Unused == <<"unused">>
None == <<"None">>            \* request.headers.get(...) found no header

\* The Authorization headers clients send.
ClientHeaders ==
    { None,
      <<>>,
      <<"Bearer">>,
      <<"Bearer", SP>>,
      <<"Bearer", K1>>,
      <<"Basic", SP, K1>>,
      <<"Bearer", SP, K1>>,
      <<"Bearer", SP, KBad>> }

\* Every string verify_api_key may be handed as the header.
HeaderAtoms == {"Bearer", SP, K1, KBad}

Headers == {None} \cup UNION { [1..n -> HeaderAtoms] : n \in 0..MaxHdrLen }

\* str.startswith("Bearer ")
StartsWithBearer(h) == Len(h) >= 2 /\ h[1] = "Bearer" /\ h[2] = SP

\* str.split(" "): the pieces between single spaces, empty pieces kept.
RECURSIVE SplitFrom(_, _, _)
SplitFrom(s, i, cur) ==
    IF i > Len(s) THEN <<cur>>
    ELSE IF s[i] = SP THEN <<cur>> \o SplitFrom(s, i + 1, <<>>)
    ELSE SplitFrom(s, i + 1, Append(cur, s[i]))

Split(s) == SplitFrom(s, 1, <<>>)

\* `api_key in VALID_API_KEYS`: the piece is exactly one key of the table.
InTable(table, k) == Len(k) = 1 /\ k[1] \in DOMAIN table

\* ---------------------------------------------------------------- JSON
BAD == "0xFF"                  \* a byte that is not valid UTF-8
ByteAtoms == {"null", SP, BAD}

Bodies == UNION { [1..n -> ByteAtoms] : n \in 0..MaxBodyLen }

NotSpace(a) == a # SP

\* json.loads(bytes): decode as UTF-8, skip whitespace, read one value,
\* nothing may follow it.
json_loads(b) ==
    IF \E i \in 1..Len(b) : b[i] = BAD
    THEN [exc |-> "UnicodeDecodeError", value |-> "undefined"]
    ELSE IF SelectSeq(b, NotSpace) = <<"null">>
         THEN [exc |-> "none", value |-> "null"]
         ELSE [exc |-> "JSONDecodeError", value |-> "undefined"]

\* json.dumps(value) as httpx (json=...) and JSONResponse use it: the
\* compact text of the value.
json_dumps(v) == <<v>>

Detail(text) == <<"detail", text>>          \* {"detail": text}
InternalServerError == <<"Internal Server Error">>   \* the framework's plain 500

\* ------------------------------------------------------------- upstream
UpStatuses == {200, 429, 500}

\* f"https://{REGION}-aiplatform.googleapis.com/v1/projects/{PROJECT_ID}/..."
google_url(model) ==
    <<"https://">> \o REGION \o <<"-aiplatform.googleapis.com/v1/projects/">> \o
    PROJECT_ID \o <<"/locations/">> \o REGION \o
    <<"/publishers/google/models/", model, ":predict">>

\* --------------------------------------------------------------- state
VARIABLES
    VALID_API_KEYS,   \* the identity table
    creds,            \* auth_manager.creds: loaded?, token (0 = None), expiry (0 = None)
    now,              \* the clock
    pc,               \* where each request's coroutine is suspended
    hdr,              \* the Authorization header the request came with
    api_key,          \* what verify_api_key returned to the handler
    model_name,       \* the {model_name} path segment
    body,             \* the raw request body, once read
    client_payload,   \* the parsed request body
    ev,               \* the last thing the process did on the network (req: the
                      \* request that is now refreshing or upstream, else 0)
    attempts          \* refresh round trips started since creds last changed

vars == <<VALID_API_KEYS, creds, now, pc, hdr, api_key, model_name, body,
          client_payload, ev, attempts>>

reqvars == <<pc, hdr, api_key, model_name, body, client_payload>>

NoEvent ==
    [kind |-> "none", req |-> 0, stage |-> "none", status |-> 0, body |-> Unused,
     hdr |-> Unused, raw |-> Unused, up_status |-> 0, up_body |-> Unused,
     sent |-> Unused, tok |-> 0, url |-> Unused, log |-> <<>>]

\* ------------------------------------------------------- Google creds
\* Credentials.expired: an expiry is set and the clock has reached it.
creds_expired(c, t) == c.expiry # 0 /\ t >= c.expiry

\* Credentials.valid: a token is held and it is not expired.
creds_valid(c, t) == c.token # 0 /\ ~creds_expired(c, t)

\* get_token, line 56: `if not self.creds`.
CredsMissing_Never(c) == FALSE

CredsMissing(c) == ~c.loaded

\* get_token, lines 59-64: `if not valid: refresh  elif expired: refresh`.
NeedsRefresh_Always(c, t) == TRUE

\* as if only a missing token were refreshed
NeedsRefresh_OnlyMissing(c, t) == c.token = 0

NeedsRefresh(c, t) == IF ~creds_valid(c, t) THEN TRUE ELSE creds_expired(c, t)

\* Credentials.refresh succeeded: a new token, good until the next tick.
Refreshed(c, t) == [c EXCEPT !.token = t + 1, !.expiry = t + 1]

\* Credentials.refresh raised: nothing was assigned.
FailedRefresh_Clears(c) == [c EXCEPT !.token = 0, !.expiry = 0]

\* as if a failed refresh dropped the loaded key
FailedRefresh_Unloads(c) == [c EXCEPT !.loaded = FALSE]

FailedRefresh(c) == c

\* get_token calls creds.refresh synchronously: until it returns, the event
\* loop runs nothing else.
LoopFree_NonBlocking == TRUE

LoopFree == \A r \in Requests : pc[r] # "refresh"

\* ------------------------------------------------------ verify_api_key
\* as if line 76 tested only that there is something after a space
verify_api_key_NoSchemeCheck(table, h) ==
    IF h = None \/ h = <<>> \/ Len(Split(h)) < 2
    THEN [status |-> 401, detail |-> "Missing or invalid Authorization header",
          api_key |-> Unused]
    ELSE LET k == Split(h)[2] IN
         IF ~InTable(table, k)
         THEN [status |-> 401, detail |-> "Invalid API Key", api_key |-> Unused]
         ELSE IF ~table[k[1]].active
              THEN [status |-> 403, detail |-> "API Key is inactive", api_key |-> Unused]
              ELSE [status |-> 200, detail |-> "", api_key |-> k]

\* as if line 86 raised 401
verify_api_key_Inactive401(table, h) ==
    IF h = None \/ h = <<>> \/ ~StartsWithBearer(h)
    THEN [status |-> 401, detail |-> "Missing or invalid Authorization header",
          api_key |-> Unused]
    ELSE LET k == Split(h)[2] IN
         IF ~InTable(table, k)
         THEN [status |-> 401, detail |-> "Invalid API Key", api_key |-> Unused]
         ELSE IF ~table[k[1]].active
              THEN [status |-> 401, detail |-> "API Key is inactive", api_key |-> Unused]
              ELSE [status |-> 200, detail |-> "", api_key |-> k]

verify_api_key(table, h) ==
    IF h = None \/ h = <<>> \/ ~StartsWithBearer(h)
    THEN [status |-> 401, detail |-> "Missing or invalid Authorization header",
          api_key |-> Unused]
    ELSE LET k == Split(h)[2] IN
         IF ~InTable(table, k)
         THEN [status |-> 401, detail |-> "Invalid API Key", api_key |-> Unused]
         ELSE IF ~table[k[1]].active
              THEN [status |-> 403, detail |-> "API Key is inactive", api_key |-> Unused]
              ELSE [status |-> 200, detail |-> "", api_key |-> k]

\* ------------------------------------------------------------ log lines
\* as if the line named the model only
AuditLine_NoUser(table, model, k) == <<"Proxying request for model:", model>>

AuditLine(table, model, k) ==
    <<"Proxying request for model:", model, "by user:", table[k[1]].name>>

StatusLine(st) == <<"Google response status:", st>>

ErrorBodyLine(b) == <<"Upstream Error Body:">> \o b

\* ------------------------------------------------------------- helpers
\* The handler returns or raises: the response goes out and the request's
\* locals are gone.
Respond(r, e) ==
    /\ ev' = [e EXCEPT !.kind = "response"]
    /\ pc' = [pc EXCEPT ![r] = "idle"]
    /\ hdr' = [hdr EXCEPT ![r] = Unused]
    /\ api_key' = [api_key EXCEPT ![r] = Unused]
    /\ model_name' = [model_name EXCEPT ![r] = "none"]
    /\ body' = [body EXCEPT ![r] = Unused]
    /\ client_payload' = [client_payload EXCEPT ![r] = "undefined"]

\* `await client.post(google_url, json=client_payload, headers=Bearer token)`.
Post(r, raw, payload, tok, lines) ==
    /\ ev' = [NoEvent EXCEPT !.kind = "post", !.req = r, !.stage = "forward",
                             !.raw = raw, !.sent = json_dumps(payload), !.tok = tok,
                             !.url = google_url(model_name[r]), !.log = lines]
    /\ pc' = [pc EXCEPT ![r] = "post"]
    /\ body' = [body EXCEPT ![r] = Unused]
    /\ client_payload' = [client_payload EXCEPT ![r] = payload]
    /\ UNCHANGED <<hdr, api_key, model_name>>

\* ------------------------------------------------------------- actions
\* A request arrives; the dependency verify_api_key runs; the handler starts
\* and waits for the body.
\* verify_api_key on header h of request r: the exception's response, or the
\* handler starts with the key and waits for the body.
Admit(r, h, m) ==
    LET v == verify_api_key(VALID_API_KEYS, h) IN
    IF v.status # 200
    THEN /\ Respond(r, [NoEvent EXCEPT !.stage = "auth", !.status = v.status,
                                       !.body = Detail(v.detail), !.hdr = h])
    ELSE /\ pc' = [pc EXCEPT ![r] = "parse"]
         /\ hdr' = [hdr EXCEPT ![r] = h]
         /\ api_key' = [api_key EXCEPT ![r] = v.api_key]
         /\ model_name' = [model_name EXCEPT ![r] = m]
         /\ UNCHANGED <<body, client_payload, ev>>

Authenticate(r) ==
    /\ pc[r] = "idle"
    /\ LoopFree
    /\ \E h \in ClientHeaders, m \in ModelNames : Admit(r, h, m)
    /\ UNCHANGED <<VALID_API_KEYS, creds, now, attempts>>

\* verify_api_key applied to the header a request arrived with.
VerifyArrived(r) ==
    /\ pc[r] = "arrived"
    /\ LoopFree
    /\ \E m \in ModelNames : Admit(r, hdr[r], m)
    /\ UNCHANGED <<VALID_API_KEYS, creds, now, attempts>>

\* The body has arrived: request.json(), the audit line, the URL, get_token
\* and, when the token is at hand, the upstream POST.
ParseBody(r) ==
    /\ pc[r] = "parse"
    /\ LoopFree
    /\ \E b \in Bodies :
         LET j == json_loads(b)
             line == AuditLine(VALID_API_KEYS, model_name[r], api_key[r]) IN
         IF j.exc = "JSONDecodeError"
         THEN /\ Respond(r, [NoEvent EXCEPT !.stage = "parse", !.status = 400,
                                            !.body = Detail("Invalid JSON body"), !.raw = b])
              /\ UNCHANGED <<creds, attempts>>
         ELSE IF j.exc # "none"
         THEN \* not a JSONDecodeError: nothing catches it
              /\ Respond(r, [NoEvent EXCEPT !.stage = "parse", !.status = 500,
                                            !.body = InternalServerError, !.raw = b])
              /\ UNCHANGED <<creds, attempts>>
         ELSE IF CredsMissing(creds)
         THEN \* RuntimeError("GCP Credentials not initialized")
              /\ Respond(r, [NoEvent EXCEPT !.stage = "token", !.status = 500,
                                            !.body = Detail("Internal Server Error: GCP Auth Failed"),
                                            !.raw = b, !.log = <<line>>])
              /\ UNCHANGED <<creds, attempts>>
         ELSE IF NeedsRefresh(creds, now)
         THEN \* creds.refresh(auth_req) is under way
              /\ pc' = [pc EXCEPT ![r] = "refresh"]
              /\ body' = [body EXCEPT ![r] = b]
              /\ client_payload' = [client_payload EXCEPT ![r] = j.value]
              /\ attempts' = Min(attempts + 1, MaxAttempts)
              /\ ev' = [NoEvent EXCEPT !.kind = "refresh", !.req = r, !.stage = "token",
                                       !.raw = b, !.log = <<line>>]
              /\ UNCHANGED <<hdr, api_key, model_name, creds>>
         ELSE /\ Post(r, b, j.value, creds.token, <<line>>)
              /\ UNCHANGED <<creds, attempts>>
    /\ UNCHANGED <<VALID_API_KEYS, now>>

\* The identity provider answered with a token.
RefreshOk(r) ==
    /\ pc[r] = "refresh"
    /\ creds' = Refreshed(creds, now)
    /\ attempts' = 0
    /\ Post(r, body[r], client_payload[r], creds'.token, <<>>)
    /\ UNCHANGED <<VALID_API_KEYS, now>>

\* The refresh raised (network error, provider rejection).
RefreshFail(r) ==
    /\ pc[r] = "refresh"
    /\ Respond(r, [NoEvent EXCEPT !.stage = "token", !.status = 500,
                                  !.body = Detail("Internal Server Error: GCP Auth Failed"),
                                  !.raw = body[r]])
    /\ creds' = FailedRefresh(creds)
    /\ UNCHANGED <<VALID_API_KEYS, now, attempts>>

\* as if the relay sat inside the try block and any failure became 502
Relay_BadGateway(st, b) ==
    LET j == json_loads(b)
        lines == IF st >= 400 THEN <<StatusLine(st), ErrorBodyLine(b)>>
                 ELSE <<StatusLine(st)>> IN
    IF j.exc # "none"
    THEN [NoEvent EXCEPT !.stage = "relay", !.status = 502,
                         !.body = Detail("Upstream connection failed"),
                         !.up_status = st, !.up_body = b, !.log = lines]
    ELSE [NoEvent EXCEPT !.stage = "relay", !.status = st, !.body = json_dumps(j.value),
                         !.up_status = st, !.up_body = b, !.log = lines]

\* Lines 144-154: the upstream answered; log it and relay it.
Relay(st, b) ==
    LET j == json_loads(b)
        lines == IF st >= 400 THEN <<StatusLine(st), ErrorBodyLine(b)>>
                 ELSE <<StatusLine(st)>> IN
    IF j.exc # "none"
    THEN \* response.json() raised: nothing catches it
         [NoEvent EXCEPT !.stage = "relay", !.status = 500, !.body = InternalServerError,
                         !.up_status = st, !.up_body = b, !.log = lines]
    ELSE [NoEvent EXCEPT !.stage = "relay", !.status = st, !.body = json_dumps(j.value),
                         !.up_status = st, !.up_body = b, !.log = lines]

UpstreamResponse(r) ==
    /\ pc[r] = "post"
    /\ LoopFree
    /\ \E st \in UpStatuses, b \in Bodies : Respond(r, Relay(st, b))
    /\ UNCHANGED <<VALID_API_KEYS, creds, now, attempts>>

\* as if the handler sent the POST again after a transport failure
UpstreamError_Retries(r) ==
    /\ pc[r] = "post"
    /\ LoopFree
    /\ Post(r, Unused, client_payload[r], creds.token, <<>>)
    /\ UNCHANGED <<VALID_API_KEYS, creds, now, attempts>>

\* httpx.RequestError: no response came back (connection failure, timeout).
UpstreamError(r) ==
    /\ pc[r] = "post"
    /\ LoopFree
    /\ Respond(r, [NoEvent EXCEPT !.stage = "transport", !.status = 502,
                                  !.body = Detail("Upstream connection failed")])
    /\ UNCHANGED <<VALID_API_KEYS, creds, now, attempts>>

health_check ==
    /\ LoopFree
    /\ ev' = [NoEvent EXCEPT !.kind = "response", !.stage = "health", !.status = 200,
                             !.body = <<"status", "ok", "service", "burncloud-gcp-proxy">>]
    /\ UNCHANGED <<VALID_API_KEYS, creds, now, attempts, reqvars>>

\* Time passes.  The clock is read only through `expired`, so the one tick
\* that counts is the tick that takes it to the expiry of the token held.
Tick ==
    /\ creds_valid(creds, now)
    /\ now < MaxTime
    /\ now' = now + 1
    /\ UNCHANGED <<VALID_API_KEYS, creds, attempts, ev, reqvars>>

\* ------------------------------------------------------- specification
\* GoogleAuthManager.__init__: the key file is there or it is not.
InitRest ==
    /\ creds \in { [loaded |-> l, token |-> 0, expiry |-> 0] : l \in BOOLEAN }
    /\ now = 0
    /\ pc = [r \in Requests |-> "idle"]
    /\ hdr = [r \in Requests |-> Unused]
    /\ api_key = [r \in Requests |-> Unused]
    /\ model_name = [r \in Requests |-> "none"]
    /\ body = [r \in Requests |-> Unused]
    /\ client_payload = [r \in Requests |-> "undefined"]
    /\ ev = NoEvent
    /\ attempts = 0

Init == VALID_API_KEYS = SourceKeyTable /\ InitRest

InitKeys == VALID_API_KEYS \in KeyTables /\ InitRest

Next ==
    \/ \E r \in Requests : Authenticate(r)
    \/ \E r \in Requests : ParseBody(r)
    \/ \E r \in Requests : RefreshOk(r)
    \/ \E r \in Requests : RefreshFail(r)
    \/ \E r \in Requests : UpstreamResponse(r)
    \/ \E r \in Requests : UpstreamError(r)
    \/ health_check
    \/ Tick

Spec == Init /\ [][Next]_vars

\* The same program with a key table whose active flags were edited.
SpecKeys == InitKeys /\ [][Next]_vars

\* verify_api_key as a function of the header: one request has arrived with
\* any header there is.
InitAuth ==
    /\ VALID_API_KEYS = SourceKeyTable
    /\ creds \in { [loaded |-> l, token |-> 0, expiry |-> 0] : l \in BOOLEAN }
    /\ now = 0
    /\ pc = [r \in Requests |-> IF r = 1 THEN "arrived" ELSE "idle"]
    /\ hdr \in { [r \in Requests |-> IF r = 1 THEN h ELSE Unused] : h \in Headers }
    /\ api_key = [r \in Requests |-> Unused]
    /\ model_name = [r \in Requests |-> "none"]
    /\ body = [r \in Requests |-> Unused]
    /\ client_payload = [r \in Requests |-> "undefined"]
    /\ ev = NoEvent
    /\ attempts = 0

NextAuth == \E r \in Requests : VerifyArrived(r)

SpecAuth == InitAuth /\ [][NextAuth]_vars

\* =============================================================== claims
\* The header is `Bearer <key>...` and <key> is an active identity of the table.
CarriesActiveKey(h) ==
    /\ h # None
    /\ Len(h) >= 3
    /\ h[1] = "Bearer" /\ h[2] = SP
    /\ h[3] \in DOMAIN VALID_API_KEYS
    /\ VALID_API_KEYS[h[3]].active
    /\ (Len(h) > 3 => h[4] = SP)

InFlight(r) == pc[r] # "idle"

\* C1: a request whose Authorization header carries no active key of the
\* identity set never gets past authentication: it is answered by the auth
\* stage, and every token fetch, refresh and upstream POST belongs to a request
\* whose header carries an active key, whatever the other requests are doing.
C1_NoSideEffectBeforeAuth ==
    /\ \A r \in Requests : InFlight(r) => CarriesActiveKey(hdr[r])
    /\ ev.kind \in {"refresh", "post"} =>
          /\ pc[ev.req] = ev.kind
          /\ CarriesActiveKey(hdr[ev.req])
    /\ (ev.kind = "response" /\ ev.stage = "auth") =>
          /\ ~CarriesActiveKey(ev.hdr)
          /\ ev.tok = 0 /\ ev.sent = Unused /\ ev.url = Unused
    /\ (ev.kind = "response" /\ ev.stage # "auth" /\ ev.stage # "health") =>
          ev.hdr = Unused

\* An unknown key was turned away while another request is already upstream.
C1_Witness ==
    /\ ev.kind = "response" /\ ev.stage = "auth"
    /\ ev.hdr = <<"Bearer", SP, KBad>>
    /\ \E r \in Requests : pc[r] = "post"

\* The status the specification gives an Authorization header, 200 standing
\* for "authenticated".
ClaimedAuthStatus(h) ==
    IF h = None \/ Len(h) < 2 \/ h[1] # "Bearer" \/ h[2] # SP THEN 401
    ELSE IF Len(h) < 3 \/ h[3] \notin DOMAIN VALID_API_KEYS THEN 401
    ELSE IF ~VALID_API_KEYS[h[3]].active THEN 403
    ELSE 200

\* C7: authentication answers 401 to an absent or non-Bearer header, 401 to
\* a key that is not in the identity set, 403 to a key of the set that is
\* inactive, and lets through only a key of the set that is active.
C7_AuthMapping ==
    /\ (ev.kind = "response" /\ ev.stage = "auth") =>
          /\ ev.status = ClaimedAuthStatus(ev.hdr)
          /\ ev.status \in {401, 403}
    /\ \A r \in Requests : InFlight(r) => ClaimedAuthStatus(hdr[r]) = 200

\* An inactive key got 403.
C7_Witness ==
    /\ ev.kind = "response" /\ ev.stage = "auth" /\ ev.status = 403
    /\ ev.hdr = <<"Bearer", SP, K1>>
    /\ ~VALID_API_KEYS[K1].active

\* The cached token is present and its expiry is in the future.
TokenValid == creds.token # 0 /\ now < creds.expiry

Refreshing == { r \in Requests : pc[r] = "refresh" }

\* In this step request r read a well-formed body and so went on to get_token.
GetTokenCalledBy(r) ==
    /\ pc[r] = "parse" /\ pc'[r] # "parse"
    /\ json_loads(ev'.raw).exc = "none"

\* C2: an upstream response with status >= 400 reaches the client with that
\* status and that body, whatever the body is.
C2_Original ==
    (ev.kind = "response" /\ ev.stage = "relay" /\ ev.up_status >= 400) =>
        (ev.status = ev.up_status /\ ev.body = ev.up_body)

\* C3: an upstream 200 with body B reaches the client as 200 with body B, and
\* the body sent upstream is the client's body unchanged.
C3_Original ==
    /\ (ev.kind = "response" /\ ev.stage = "relay" /\ ev.up_status = 200) =>
          (ev.status = 200 /\ ev.body = ev.up_body)
    /\ ev.kind = "post" => ev.sent = ev.raw

\* C4 as stated: never two refreshes in flight, and never a second refresh
\* round trip while the cached credential is the same.
C4_Original ==
    /\ Cardinality(Refreshing) <= 1
    /\ attempts <= 1

\* C4: at most one refresh is in flight at any time; a refresh starts only
\* when the cached token is absent or expired; and while the cached token is
\* valid no refresh has been started for it.
C4_SingleFlight ==
    /\ Cardinality(Refreshing) <= 1
    /\ Refreshing # {} => (~TokenValid /\ attempts >= 1)
    /\ TokenValid => attempts = 0

\* Every request slot is upstream with the one token a single refresh minted.
C4_Witness ==
    /\ \A r \in Requests : pc[r] = "post"
    /\ creds.token = 1 /\ now = 0 /\ attempts = 0

\* C5: with a cached token whose expiry is in the future, get_token hands out
\* that token, makes no refresh round trip and leaves the credential as it
\* was (so the next call finds the same).
C5_CachedTokenRead ==
    [][\A r \in Requests :
         (GetTokenCalledBy(r) /\ TokenValid) =>
            /\ creds' = creds
            /\ attempts' = attempts
            /\ pc'[r] = "post"
            /\ ev'.kind = "post" /\ ev'.req = r /\ ev'.tok = creds.token]_vars

\* A second request went upstream on the cached token, without a refresh.
C5_Witness ==
    /\ ev.kind = "post" /\ ev.log # <<>> /\ ev.tok = creds.token
    /\ \E r \in Requests : r # ev.req /\ pc[r] = "post"

\* What every response answers for the stage that produced it.
C6_MappedStatus ==
    ev.kind = "response" =>
        /\ ev.stage = "auth" => ev.status \in {401, 403}
        /\ ev.stage = "parse" => ev.status = 400
        /\ ev.stage = "token" => ev.status = 500
        /\ ev.stage = "transport" => ev.status = 502
        /\ ev.stage = "relay" => ev.status = ev.up_status

\* C6: a failing stage ends the request with that stage's mapped status, and a
\* failure up to token acquisition leaves no upstream POST behind.
C6_Original ==
    /\ C6_MappedStatus
    /\ (ev.kind = "response" /\ ev.stage \in {"auth", "parse", "token"}) =>
          (ev.sent = Unused /\ ev.tok = 0 /\ ev.url = Unused)

\* C8: without a key file the manager stays without credentials; no refresh
\* and no upstream POST ever happens; every request that gets as far as
\* get_token is answered 500.
C8_Degraded ==
    [][~creds.loaded =>
         /\ creds' = creds
         /\ attempts' = 0
         /\ ev'.kind \notin {"refresh", "post"}
         /\ \A r \in Requests :
              /\ pc'[r] \notin {"refresh", "post"}
              /\ GetTokenCalledBy(r) =>
                    /\ ev'.kind = "response"
                    /\ ev'.stage = "token" /\ ev'.status = 500
                    /\ pc'[r] = "idle"]_vars

\* A well-formed request was answered 500 while another is being served.
C8_Witness ==
    /\ ~creds.loaded
    /\ \E r \in Requests : pc[r] = "parse"
    /\ ev.kind = "response" /\ ev.stage = "token" /\ ev.status = 500
    /\ json_loads(ev.raw).exc = "none"

\* C9: a failed refresh answers the request 500 with nothing sent upstream and
\* leaves token and expiry as they were, still not valid; the next get_token
\* starts a refresh again; a refresh that succeeds leaves a valid token.
C9_RefreshFailure ==
    [][\A r \in Requests :
         /\ (pc[r] = "refresh" /\ pc'[r] = "idle") =>
               /\ creds' = creds
               /\ ~TokenValid /\ ~TokenValid'
               /\ ev'.kind = "response"
               /\ ev'.stage = "token" /\ ev'.status = 500 /\ ev'.sent = Unused
         /\ (GetTokenCalledBy(r) /\ creds.loaded /\ ~TokenValid) =>
               (pc'[r] = "refresh" /\ ev'.kind = "refresh" /\ creds' = creds)
         /\ (pc[r] = "refresh" /\ pc'[r] = "post") => TokenValid']_vars

\* After a failed refresh the expired token is still there and the next
\* caller is refreshing again.
C9_Witness ==
    /\ attempts >= 2
    /\ creds.token # 0 /\ now >= creds.expiry
    /\ Refreshing # {}

\* C10: an authenticated request whose body is not valid JSON is answered 400
\* by the parse stage, with no token fetched and nothing sent upstream.
C10_Original ==
    (ev.raw # Unused /\ json_loads(ev.raw).exc # "none") =>
        /\ ev.kind = "response" /\ ev.stage = "parse" /\ ev.status = 400
        /\ ev.tok = 0 /\ ev.sent = Unused

C12_Original ==
    (ev.kind = "response" /\ ev.stage # "health") =>
        \/ ev.stage = "auth" /\ ev.status \in {401, 403} /\ ev.body[1] = "detail"
        \/ ev.stage = "parse"
        \/ ev.stage = "token" /\ ev.status = 500 /\ ev.body[1] = "detail"
        \/ ev.stage = "transport" /\ ev.status = 502 /\ ev.body[1] = "detail"
        \/ ev.stage = "relay" /\ ev.status = ev.up_status /\ ev.body # InternalServerError

HasAuditLine(lines) ==
    \E i \in 1..Len(lines) : lines[i][1] = "Proxying request for model:"

HasStatusLine(lines) ==
    \E i \in 1..Len(lines) : lines[i][1] = "Google response status:"

C14_ReturnedToken ==
    [][\A r \in Requests :
         /\ (pc[r] # "post" /\ pc'[r] = "post") =>
               /\ TokenValid'
               /\ ev'.kind = "post" /\ ev'.req = r
               /\ ev'.tok = creds'.token /\ ev'.tok # 0
         /\ (pc[r] = "parse" /\ pc'[r] = "post") => (TokenValid /\ creds' = creds)
         /\ (pc[r] = "parse" /\ pc'[r] = "refresh") => (~TokenValid /\ creds' = creds)
         /\ (pc[r] = "refresh" /\ pc'[r] = "post") =>
               (creds'.token # creds.token /\ creds'.expiry > now)]_vars

\* The first token expired, and the POST in flight carries the one minted after.
C14_Witness ==
    /\ ev.kind = "post" /\ now = 1
    /\ ev.tok = 2 /\ creds.token = 2 /\ TokenValid
    /\ pc[ev.req] = "post"

\* C15: the cached credential (token, expiry) changes only in the step in which
\* a refresh inside get_token succeeds, and the identity set never changes:
\* authentication, body parsing, forwarding, relaying, the health endpoint and
\* every failure path, a failed refresh included, leave both as they were.
C15_CredentialFrame ==
    [][/\ VALID_API_KEYS' = VALID_API_KEYS
       /\ creds' # creds =>
             /\ \E r \in Requests : pc[r] = "refresh" /\ pc'[r] = "post"
             /\ creds'.loaded = creds.loaded
             /\ ev'.kind = "post"
       /\ (ev' # ev /\ ev'.kind = "response") => creds' = creds
       /\ (ev' # ev /\ ev'.kind = "refresh") => creds' = creds]_vars

\* A token was minted and expired, then a refresh failed: the expired token is
\* still the cached one.
C15_Witness ==
    /\ ev.kind = "response" /\ ev.stage = "token" /\ ev.status = 500
    /\ creds.loaded /\ creds.token # 0
    /\ ~TokenValid

\* C16 as stated: a caller is let through only with a header that is exactly
\* `Bearer <key>`, the whole remainder being a key of the identity set.
C16_Original ==
    \A r \in Requests :
        pc[r] = "parse" =>
            \E k \in DOMAIN VALID_API_KEYS : hdr[r] = <<"Bearer", SP, k>>

\* C17 as stated: while a request is in the token-refresh round trip or in the
\* upstream round trip, a health check can be answered and every other request
\* can take its next step.
C17_Original ==
    \A r \in Requests :
        pc[r] \in {"refresh", "post"} =>
            /\ ENABLED health_check
            /\ \A r2 \in Requests \ {r} :
                 /\ pc[r2] = "idle" => ENABLED Authenticate(r2)
                 /\ pc[r2] = "parse" => ENABLED ParseBody(r2)
                 /\ pc[r2] = "post" => ENABLED (UpstreamResponse(r2) \/ UpstreamError(r2))

\* C18: a request starts at most one refresh and at most one upstream POST.  It
\* enters the refresh only from its body-parsing step and leaves it for the POST
\* or for its (500) answer; it enters the POST only from parsing or from its own
\* refresh, with the token get_token just returned, and leaves it only for its
\* answer; nothing is sent again for a request that is waiting.
C18_NoRetry ==
    [][\A r \in Requests :
         /\ (pc[r] # "parse" /\ pc'[r] = "parse") => pc[r] = "idle"
         /\ (pc[r] # "refresh" /\ pc'[r] = "refresh") =>
               (pc[r] = "parse" /\ ev'.kind = "refresh" /\ ev'.req = r)
         /\ pc[r] = "refresh" =>
               /\ pc'[r] \in {"refresh", "post", "idle"}
               /\ pc'[r] = "refresh" => ev' = ev
               /\ pc'[r] = "idle" =>
                     (ev'.kind = "response" /\ ev'.stage = "token" /\ ev'.status = 500)
         /\ (pc[r] # "post" /\ pc'[r] = "post") =>
               /\ pc[r] \in {"parse", "refresh"}
               /\ ev'.kind = "post" /\ ev'.req = r
               /\ ev'.tok = creds'.token /\ ev'.tok # 0
         /\ pc[r] = "post" =>
               /\ pc'[r] \in {"post", "idle"}
               /\ (pc'[r] = "post" /\ ev' # ev) => ev'.req # r
               /\ pc'[r] = "idle" =>
                     (ev'.kind = "response" /\ ev'.stage \in {"relay", "transport"})]_vars

\* One refresh was started and failed; its request was answered and nothing
\* is retrying.
C18_Witness ==
    /\ ev.kind = "response" /\ ev.stage = "token" /\ ev.status = 500
    /\ creds.loaded /\ creds.token = 0
    /\ attempts = 1
    /\ \A r \in Requests : pc[r] = "idle"

====
